---- MODULE Spec2Model ----
(***************************************************************************)
(* SDAL builder: the parcel codec (encoder.py), the parcel reader          *)
(* (validate_sdal_iso.py), the streaming extractor (sdal_osmium_stream.py) *)
(* and the container assembler (main.py build).                            *)
(*                                                                         *)
(* Three specifications share the variables:                               *)
(*   SpecEncode   the pure encoders applied to bounded inputs              *)
(*   SpecScan     files written parcel by parcel, stored, and scanned      *)
(*   SpecExtract  the road and POI handlers fed a stream of OSM objects    *)
(*   Spec         one run of build() over a list of regions                *)
(***************************************************************************)
EXTENDS Integers, Sequences, FiniteSets, TLC

VARIABLES
    \* ---- encoder calls (SpecEncode) ----
    call,        \* arguments of the last encoder call
    out,         \* bytes it returned
    \* ---- a stored file and the reader's scan of it (SpecScan) ----
    parcels,     \* the (pid, payload) pairs written to the file, in order
    data,        \* bytes of the file as stored in the image
    origin,      \* "encoder": written by encode_bytes; "foreign": laid out with the reader's FMT
    damage,      \* "none" | "byte" | "cut": what storage did to the file
    spc,         \* "write" | "scan" | "done": position of the reader
    ptr,         \* validate_sdal_iso: ptr
    parcel_no,   \* validate_sdal_iso: parcel_no
    ok,          \* validate_sdal_iso: ok
    verdicts,    \* the reader's printed line per parcel: "OK" or the FAIL reason
    \* ---- one apply_file pass of a handler (SpecExtract) ----
    handler,     \* "roads": _RoadHandler; "pois": _POIHandler
    fed,         \* the objects libosmium has handed to the handler's callbacks, in file order
    rows,        \* handler.rows
    counter,     \* handler._counter
    log,         \* lines the handler has logged
    xst,         \* "running" | "done": apply_file has returned
    \* ---- one run of build() (Spec) ----
    regions,           \* build: regions, the slugs given on the command line
    pc,                \* the statement of build() that runs next
    ri,                \* position of the running `for region in regions` loop
    pbfs,              \* work directory: the cached .osm.pbf files (path -> region it holds)
    fs,                \* work directory: the .SDL files (name -> parcels it holds, in order)
    bpt,               \* work directory: the on-disk B+-tree files (path -> key -> offset)
    all_centroids,     \* build: all_centroids
    kd_blob,           \* build: kd_blob
    all_poi_names,     \* build: all_poi_names
    poi_records,       \* build: poi_records
    poi_offsets,       \* build: poi_offsets
    offset_acc,        \* build: offset_acc
    poi_index_counter, \* build: poi_index_counter
    poi_index_blob,    \* build: poi_index_blob
    filenames,         \* build: filenames, the planned names listed in the manifest
    global_files,      \* build: global_files
    region_files,      \* build: region_files
    records,           \* build: records of the region being assembled
    offsets,           \* build: offsets of the region being assembled
    iso_input,         \* the list write_iso was called with; << "none" >> before the call
    error,             \* the exception build() re-raised to its caller; "none" while there is none
    report,            \* what build() wrote to the log at error level
    prior              \* how the earlier run in this work directory ended; pc "none" if there was none

codecVars == <<call, out>>
scanVars  == <<parcels, data, origin, damage, spc, ptr, parcel_no, ok, verdicts>>
xVars     == <<handler, fed, rows, counter, log, xst>>
bVars     == <<regions, pc, ri, pbfs, fs, bpt, all_centroids, kd_blob, all_poi_names,
               poi_records, poi_offsets, offset_acc, poi_index_counter, poi_index_blob,
               filenames, global_files, region_files, records, offsets, iso_input,
               error, report, prior>>
vars      == <<codecVars, scanVars, xVars, bVars>>

----------------------------------------------------------------------------
(* Bounds and sample alphabets                                             *)

MaxPayload == 2      \* longest payload handed to encode_bytes
MaxStrings == 2      \* longest list handed to encode_strings
MaxParcels == 2      \* most parcels in one scanned file
MaxObjects == 3      \* most OSM objects in one extraction pass
MaxRegions == 2      \* most regions given to one build

ByteVals   == {0, 255}
Kinds      == {0, 5, 258}
\* strings as sequences of code points: "", "A", U+00E9, U+0000, "A" U+0000 "A"
SampleStrings == {<< >>, <<65>>, <<233>>, <<0>>, <<65, 0, 65>>}

SeqsUpTo(S, n) == UNION {[1..k -> S] : k \in 0..n}
Payloads    == SeqsUpTo(ByteVals, MaxPayload)
StringLists == SeqsUpTo(SampleStrings, MaxStrings)

----------------------------------------------------------------------------
(* Integers wider than TLC's: a u32 is <<high 16 bits, low 16 bits>>       *)

W(n) == <<n \div 65536, n % 65536>>

RECURSIVE Xor16(_, _, _)
Xor16(a, b, bits) ==
    IF bits = 0 THEN 0
    ELSE ((a + b) % 2) + (2 * Xor16(a \div 2, b \div 2, bits - 1))

Xor32(a, b) == <<Xor16(a[1], b[1], 16), Xor16(a[2], b[2], 16)>>
Shr32(a)    == <<a[1] \div 2, (a[2] \div 2) + (a[1] % 2) * 32768>>

CrcPoly == <<60856, 33568>>      \* 0xEDB88320, the reflected CRC-32 polynomial
AllOnes == <<65535, 65535>>      \* 0xFFFFFFFF

RECURSIVE CrcShift(_, _)
CrcShift(c, k) ==
    IF k = 0 THEN c
    ELSE IF c[2] % 2 = 1 THEN CrcShift(Xor32(Shr32(c), CrcPoly), k - 1)
    ELSE CrcShift(Shr32(c), k - 1)

\* the CRC register after the first n bytes of body
RECURSIVE CrcUpdate(_, _)
CrcUpdate(body, n) ==
    IF n = 0 THEN AllOnes
    ELSE CrcShift(Xor32(CrcUpdate(body, n - 1), <<0, body[n]>>), 8)

\* zlib.crc32(body) & 0xFFFFFFFF
zlib_crc32(body) == Xor32(CrcUpdate(body, Len(body)), AllOnes)

----------------------------------------------------------------------------
(* bitstruct: fields of whole bytes, packed in format order                *)

BytesBE(width, v) ==
    CASE width = 8  -> <<v[2] % 256>>
      [] width = 16 -> <<v[2] \div 256, v[2] % 256>>
      [] width = 32 -> <<v[1] \div 256, v[1] % 256, v[2] \div 256, v[2] % 256>>

Reverse(s) == [i \in 1..Len(s) |-> s[Len(s) + 1 - i]]

FieldBytes(fmt, i, v) ==
    IF fmt.little THEN Reverse(BytesBE(fmt.fields[i], v)) ELSE BytesBE(fmt.fields[i], v)

RECURSIVE PackFrom(_, _, _)
PackFrom(fmt, vals, i) ==
    IF i > Len(fmt.fields) THEN << >>
    ELSE FieldBytes(fmt, i, vals[i]) \o PackFrom(fmt, vals, i + 1)

\* bitstruct.pack(fmt, *vals): one value per field; values beyond the last field are not packed
bitstruct_pack(fmt, vals) == PackFrom(fmt, vals, 1)

RECURSIVE SumWidths(_, _)
SumWidths(fields, i) == IF i > Len(fields) THEN 0 ELSE fields[i] + SumWidths(fields, i + 1)

\* bitstruct.calcsize(fmt), in bits
bitstruct_calcsize(fmt) == SumWidths(fmt.fields, 1)

FieldOffset(fmt, i) == SumWidths(SubSeq(fmt.fields, 1, i - 1), 1) \div 8

ValueBE(bs) ==
    CASE Len(bs) = 1 -> <<0, bs[1]>>
      [] Len(bs) = 2 -> <<0, bs[1] * 256 + bs[2]>>
      [] Len(bs) = 4 -> <<bs[1] * 256 + bs[2], bs[3] * 256 + bs[4]>>

\* bitstruct.unpack(fmt, header): the field values, in format order
bitstruct_unpack(fmt, header) ==
    [i \in 1..Len(fmt.fields) |->
        LET raw == SubSeq(header, FieldOffset(fmt, i) + 1,
                          FieldOffset(fmt, i) + (fmt.fields[i] \div 8))
        IN  ValueBE(IF fmt.little THEN Reverse(raw) ELSE raw)]

----------------------------------------------------------------------------
(* encoder.py                                                              *)

\* constants.PARCEL_HEADER_FMT: kind:u16 | length:u32 | crc32:u32 | reserved:u16 |
\* version:u8 | reserved:u8, little-endian
PARCEL_HEADER_FMT == [fields |-> <<16, 32, 32, 16, 8, 8>>, little |-> TRUE]

PARCEL_HEADER_LEN == bitstruct_calcsize(PARCEL_HEADER_FMT) \div 8

hdr_stale_crc(pid, body) ==
    bitstruct_pack(PARCEL_HEADER_FMT,
                   <<W(pid), W(Len(body)), zlib_crc32(<< >>), W(0), W(1), W(0), W(0)>>)

_hdr(pid, body) ==
    bitstruct_pack(PARCEL_HEADER_FMT,
                   <<W(pid), W(Len(body)), zlib_crc32(body), W(0), W(1), W(0), W(0)>>)

encode_bytes(pid, payload) == _hdr(pid, payload) \o payload

\* str.encode('utf8') of one code point
Utf8(cp) ==
    IF cp < 128 THEN <<cp>>
    ELSE IF cp < 2048 THEN <<192 + (cp \div 64), 128 + (cp % 64)>>
    ELSE <<224 + (cp \div 4096), 128 + ((cp \div 64) % 64), 128 + (cp % 64)>>

RECURSIVE str_encode(_)
str_encode(s) == IF s = << >> THEN << >> ELSE Utf8(Head(s)) \o str_encode(Tail(s))

\* b'\x00'.join(...): separators instead of terminators
RECURSIVE strings_raw_joined(_)
strings_raw_joined(strings) ==
    IF strings = << >> THEN << >>
    ELSE IF Len(strings) = 1 THEN str_encode(Head(strings))
    ELSE str_encode(Head(strings)) \o <<0>> \o strings_raw_joined(Tail(strings))

\* raw = b''.join(s.encode('utf8') + b'\x00' for s in strings)
RECURSIVE strings_raw(_)
strings_raw(strings) ==
    IF strings = << >> THEN << >>
    ELSE str_encode(Head(strings)) \o <<0>> \o strings_raw(Tail(strings))

encode_strings(pid, strings) == encode_bytes(pid, strings_raw(strings))

----------------------------------------------------------------------------
(* The decoder the format prescribes: read the fixed header, read `length`  *)
(* bytes, verify the checksum; NUL-split a string payload                   *)

decode_parcel(bytes) ==
    IF Len(bytes) < PARCEL_HEADER_LEN THEN [ok |-> FALSE, why |-> "header"]
    ELSE LET f    == bitstruct_unpack(PARCEL_HEADER_FMT, SubSeq(bytes, 1, PARCEL_HEADER_LEN))
             rest == SubSeq(bytes, PARCEL_HEADER_LEN + 1, Len(bytes))
         IN  IF f[2][1] # 0 \/ f[2][2] > Len(rest) THEN [ok |-> FALSE, why |-> "length"]
             ELSE LET body == SubSeq(rest, 1, f[2][2])
                  IN  IF zlib_crc32(body) # f[3] THEN [ok |-> FALSE, why |-> "crc"]
                      ELSE [ok |-> TRUE, kind |-> f[1][2], length |-> f[2][2],
                            crc |-> f[3], payload |-> body,
                            size |-> PARCEL_HEADER_LEN + f[2][2]]

\* the NUL-terminated pieces of a payload, in order
RECURSIVE split_nul(_, _)
split_nul(payload, piece) ==
    IF payload = << >> THEN << >>
    ELSE IF Head(payload) = 0 THEN <<piece>> \o split_nul(Tail(payload), << >>)
    ELSE split_nul(Tail(payload), Append(piece, Head(payload)))

\* bytes.decode('utf8'), for the code points Utf8 encodes
RECURSIVE str_decode(_)
str_decode(bs) ==
    IF bs = << >> THEN << >>
    ELSE IF bs[1] < 128 THEN <<bs[1]>> \o str_decode(Tail(bs))
    ELSE IF bs[1] < 224
         THEN <<(bs[1] - 192) * 64 + (bs[2] - 128)>> \o str_decode(SubSeq(bs, 3, Len(bs)))
    ELSE <<(bs[1] - 224) * 4096 + (bs[2] - 128) * 64 + (bs[3] - 128)>>
             \o str_decode(SubSeq(bs, 4, Len(bs)))

decode_strings(payload) ==
    LET pieces == split_nul(payload, << >>)
    IN  [i \in 1..Len(pieces) |-> str_decode(pieces[i])]

----------------------------------------------------------------------------
(* SpecEncode: the encoders applied to bounded inputs                      *)

\* no build is running
BuildIdle ==
    /\ regions = << >> /\ pc = "idle" /\ ri = 1
    /\ pbfs = << >> /\ fs = << >> /\ bpt = << >>
    /\ all_centroids = << >> /\ kd_blob = << >> /\ all_poi_names = << >>
    /\ poi_records = << >> /\ poi_offsets = << >> /\ offset_acc = 0
    /\ poi_index_counter = 0 /\ poi_index_blob = << >>
    /\ filenames = << >> /\ global_files = << >> /\ region_files = << >>
    /\ records = << >> /\ offsets = << >> /\ iso_input = <<"none">>
    /\ error = "none" /\ report = << >> /\ prior = [pc |-> "none"]

ExtractIdle ==
    /\ handler = "roads" /\ fed = << >> /\ rows = << >> /\ counter = 0
    /\ log = << >> /\ xst = "running"

ScanIdle ==
    /\ parcels = << >> /\ data = << >> /\ origin = "encoder" /\ damage = [kind |-> "none"]
    /\ spc = "write" /\ ptr = 0 /\ parcel_no = 1 /\ ok = TRUE /\ verdicts = << >>

InitEncode ==
    /\ call = [op |-> "none"]
    /\ out = << >>
    /\ ScanIdle
    /\ ExtractIdle
    /\ BuildIdle

CallEncodeBytes ==
    \E pid \in Kinds, payload \in Payloads :
        /\ call.op = "none"
        /\ call' = [op |-> "encode_bytes", pid |-> pid, payload |-> payload]
        /\ out' = encode_bytes(pid, payload)
        /\ UNCHANGED <<scanVars, xVars, bVars>>

CallEncodeStrings ==
    \E pid \in Kinds, strings \in StringLists :
        /\ call.op = "none"
        /\ call' = [op |-> "encode_strings", pid |-> pid, strings |-> strings]
        /\ out' = encode_strings(pid, strings)
        /\ UNCHANGED <<scanVars, xVars, bVars>>

NextEncode == CallEncodeBytes \/ CallEncodeStrings

SpecEncode == InitEncode /\ [][NextEncode]_vars

HasNul(strings) == \E i \in 1..Len(strings) : \E j \in 1..Len(strings[i]) : strings[i][j] = 0

\* C2 as stated: for every list L of strings, NUL-splitting the payload of
\* encode_strings(K, L) recovers exactly L.
C2_AnyListRoundTrip ==
    call.op = "encode_strings" =>
        /\ decode_parcel(out).ok
        /\ decode_strings(decode_parcel(out).payload) = call.strings

\* C2 amended: for every list L of strings none of which contains U+0000 (empty
\* strings included), NUL-splitting the payload of encode_strings(K, L) recovers
\* exactly L, an empty string contributing a single NUL byte.
C2_NulFreeListRoundTrip ==
    (call.op = "encode_strings" /\ ~HasNul(call.strings)) =>
        /\ decode_parcel(out).ok
        /\ decode_parcel(out).kind = call.pid
        /\ decode_strings(decode_parcel(out).payload) = call.strings
        /\ \A i \in 1..Len(call.strings) :
               call.strings[i] = << >> =>
                   Len(strings_raw(SubSeq(call.strings, i, i))) = 1

C2_Witness ==
    /\ call.op = "encode_strings"
    /\ call.strings = << << >>, <<233>> >>
    /\ decode_parcel(out).payload = <<0, 195, 169, 0>>

----------------------------------------------------------------------------
(* validate_sdal_iso.py: the reader's forward scan of one stored file      *)

\* FMT = 'u16u32u32u16u16u8u8' (no byte-order suffix: big-endian)
FMT == [fields |-> <<16, 32, 32, 16, 16, 8, 8>>, little |-> FALSE]

HDR_LEN == bitstruct_calcsize(FMT) \div 8

ScanKinds == {5, 258}

\* a parcel as a writer using the reader's own FMT lays it out
foreign_parcel(pid, payload) ==
    bitstruct_pack(FMT, <<W(pid), W(Len(payload)), zlib_crc32(payload),
                          W(0), W(1), W(0), W(0)>>) \o payload

InitScan ==
    /\ call = [op |-> "none"]
    /\ out = << >>
    /\ ScanIdle
    /\ ExtractIdle
    /\ BuildIdle

\* a builder appends one more parcel to the file (f.write(encode_bytes(...)))
StoreParcel ==
    \E pid \in ScanKinds, payload \in Payloads :
        /\ spc = "write" /\ damage.kind = "none"
        /\ origin = "encoder"
        /\ Len(parcels) < MaxParcels
        /\ parcels' = Append(parcels, [pid |-> pid, payload |-> payload])
        /\ data' = data \o encode_bytes(pid, payload)
        /\ UNCHANGED <<codecVars, xVars, bVars, origin, damage, spc, ptr, parcel_no, ok, verdicts>>

\* the image holds a file some other writer laid out with the reader's FMT
StoreForeign ==
    \E pid \in ScanKinds, payload \in Payloads :
        /\ spc = "write" /\ damage.kind = "none"
        /\ parcels = << >> \/ origin = "foreign"
        /\ Len(parcels) < MaxParcels
        /\ origin' = "foreign"
        /\ parcels' = Append(parcels, [pid |-> pid, payload |-> payload])
        /\ data' = data \o foreign_parcel(pid, payload)
        /\ UNCHANGED <<codecVars, xVars, bVars, damage, spc, ptr, parcel_no, ok, verdicts>>

\* storage or transport changes one byte of the file
CorruptByte ==
    \E i \in 1..Len(data), b \in ByteVals :
        /\ spc = "write" /\ damage.kind = "none"
        /\ b # data[i]
        /\ data' = [data EXCEPT ![i] = b]
        /\ damage' = [kind |-> "byte", at |-> i]
        /\ UNCHANGED <<codecVars, xVars, bVars, parcels, origin, spc, ptr, parcel_no, ok, verdicts>>

\* storage or transport loses the tail of the file
CutTail ==
    \E n \in 1..(Len(data) - 1) :
        /\ spc = "write" /\ damage.kind = "none"
        /\ data' = SubSeq(data, 1, n)
        /\ damage' = [kind |-> "cut", at |-> n]
        /\ UNCHANGED <<codecVars, xVars, bVars, parcels, origin, spc, ptr, parcel_no, ok, verdicts>>

\* ptr, parcel_no, total = 0, 1, len(data)
StartScan ==
    /\ spc = "write" /\ parcels # << >>
    /\ spc' = "scan"
    /\ ptr' = 0 /\ parcel_no' = 1 /\ ok' = TRUE /\ verdicts' = << >>
    /\ UNCHANGED <<codecVars, xVars, bVars, parcels, data, origin, damage>>

\* one iteration of `while ptr < total`
ScanStep ==
    /\ spc = "scan"
    /\ ptr < Len(data)
    /\ LET total == Len(data) IN
       IF total - ptr < HDR_LEN
       THEN /\ verdicts' = Append(verdicts, "incomplete header")
            /\ ok' = FALSE /\ spc' = "done"
            /\ UNCHANGED <<ptr, parcel_no>>
       ELSE LET header == SubSeq(data, ptr + 1, ptr + HDR_LEN)
                f      == bitstruct_unpack(FMT, header)
                length == f[2]
                crc    == f[3]
                start  == ptr + HDR_LEN
            IN  \* end > total; every modelled file is shorter than 2^16 bytes
                IF length[1] > 0 \/ start + length[2] > total
                THEN /\ verdicts' = Append(verdicts, "length mismatch")
                     /\ ok' = FALSE /\ spc' = "done"
                     /\ UNCHANGED <<ptr, parcel_no>>
                ELSE LET end     == start + length[2]
                         payload == SubSeq(data, start + 1, end)
                     IN  IF zlib_crc32(payload) # crc
                         THEN /\ verdicts' = Append(verdicts, "CRC mismatch")
                              /\ ok' = FALSE /\ spc' = "done"
                              /\ UNCHANGED <<ptr, parcel_no>>
                         ELSE /\ verdicts' = Append(verdicts, "OK")
                              /\ ptr' = end /\ parcel_no' = parcel_no + 1
                              /\ UNCHANGED <<ok, spc>>
    /\ UNCHANGED <<codecVars, xVars, bVars, parcels, data, origin, damage>>

\* the loop condition fails: the file has been scanned to its end
ScanEnd ==
    /\ spc = "scan"
    /\ ptr >= Len(data)
    /\ spc' = "done"
    /\ UNCHANGED <<codecVars, xVars, bVars, parcels, data, origin, damage, ptr, parcel_no, ok, verdicts>>

NextScan ==
    StoreParcel \/ StoreForeign \/ CorruptByte \/ CutTail \/ StartScan \/ ScanStep \/ ScanEnd

SpecScan == InitScan /\ [][NextScan]_vars

\* C3: the header in front of every parcel is kind:u16, length:u32, crc32:u32,
\* reserved:u16, version:u8, reserved:u8 (14 bytes) whatever the payload, and the
\* reader scans files with that same layout and size.
C3_ReaderSharesHeaderLayout ==
    (origin = "encoder" /\ parcels # << >>) =>
        /\ \A i \in 1..Len(parcels) : Len(_hdr(parcels[i].pid, parcels[i].payload)) = 14
        /\ PARCEL_HEADER_FMT.fields = <<16, 32, 32, 16, 8, 8>>
        /\ FMT = PARCEL_HEADER_FMT
        /\ HDR_LEN = PARCEL_HEADER_LEN

\* where parcel i starts in the file as written, and where its payload ends
RECURSIVE WrittenBefore(_, _)
WrittenBefore(i, hlen) ==
    IF i = 1 THEN 0 ELSE WrittenBefore(i - 1, hlen) + hlen + Len(parcels[i - 1].payload)

InPayload(at, hlen) ==
    \E i \in 1..Len(parcels) :
        /\ at > WrittenBefore(i, hlen) + hlen
        /\ at <= WrittenBefore(i, hlen) + hlen + Len(parcels[i].payload)

AtBoundary(n, hlen) ==
    \E i \in 1..Len(parcels) : n = WrittenBefore(i, hlen)

WrittenHeaderLen == IF origin = "encoder" THEN PARCEL_HEADER_LEN ELSE HDR_LEN

\* C4: the scan succeeds, ending at the end of the file, on every concatenation of
\* encoder outputs, and fails on a file with a changed payload byte or a parcel
\* cut short.
C4_ScanAcceptsEncoderFiles ==
    spc = "done" =>
        /\ (origin = "encoder" /\ damage.kind = "none") =>
               (ok /\ ptr = Len(data) /\ Len(verdicts) = Len(parcels))
        /\ (damage.kind = "byte" /\ InPayload(damage.at, WrittenHeaderLen)) => ~ok
        /\ (damage.kind = "cut" /\ ~AtBoundary(damage.at, WrittenHeaderLen)) => ~ok

\* what the scan does for files laid out with the reader's own FMT
ScanDetectsDamage ==
    (spc = "done" /\ origin = "foreign") =>
        /\ (damage.kind = "byte" /\ InPayload(damage.at, HDR_LEN)) => ~ok
        /\ (damage.kind = "cut" /\ ~AtBoundary(damage.at, HDR_LEN)) => ~ok
        /\ damage.kind = "none" => (ok /\ ptr = Len(data) /\ Len(verdicts) = Len(parcels))

----------------------------------------------------------------------------
(* sdal_osmium_stream.py: one apply_file pass of _RoadHandler or _POIHandler *)

PROGRESS_EVERY == 100000

_DRIVABLE ==
    {"motorway", "trunk", "primary", "secondary", "tertiary", "unclassified",
     "residential", "motorway_link", "trunk_link", "primary_link", "secondary_link",
     "tertiary_link", "service"}

_DEFAULT_POI_TAGS ==
    {"amenity", "shop", "tourism", "leisure", "historic", "natural", "man_made"}

\* node references of a way: ref id and the location the index resolved (lon, lat);
\* the location is not valid when the node is not in the file
NA == [ref |-> 1, valid |-> TRUE, loc |-> <<0, 0>>]
NB == [ref |-> 2, valid |-> TRUE, loc |-> <<10, 0>>]
NC == [ref |-> 3, valid |-> TRUE, loc |-> <<10, 10>>]
NX == [ref |-> 9, valid |-> FALSE, loc |-> << >>]

SampleWays ==
    { [type |-> "way", id |-> 101, tags |-> [highway |-> "residential", name |-> "High St"],
                                   nodes |-> <<NA, NB>>],
      [type |-> "way", id |-> 102, tags |-> [highway |-> "residential"],
                                   nodes |-> <<NB, NC>>],
      [type |-> "way", id |-> 103, tags |-> [highway |-> "path"], nodes |-> <<NA, NB>>],
      [type |-> "way", id |-> 104, tags |-> [highway |-> "service", oneway |-> "yes"],
                                   nodes |-> <<NA, NB, NC>>],
      [type |-> "way", id |-> 105, tags |-> [highway |-> "residential"], nodes |-> <<NA>>],
      [type |-> "way", id |-> 106, tags |-> [highway |-> "residential"],
                                   nodes |-> <<NA, NX, NC>>],
      [type |-> "way", id |-> 107, tags |-> [amenity |-> "parking", name |-> "P1"],
                                   nodes |-> <<NA, NB, NC, NA>>],
      [type |-> "way", id |-> 108, tags |-> [leisure |-> "track"], nodes |-> <<NA, NB, NC>>],
      [type |-> "way", id |-> 109, tags |-> [man_made |-> "pier"], nodes |-> <<NA, NB>>],
      [type |-> "way", id |-> 110, tags |-> [amenity |-> "school"], nodes |-> <<NA, NX, NC, NA>>],
      [type |-> "way", id |-> 111, tags |-> [building |-> "yes"], nodes |-> <<NA, NB, NC, NA>>] }

SampleNodes ==
    { [type |-> "node", id |-> 1, tags |-> [amenity |-> "cafe", name |-> "Joe"], loc |-> <<0, 0>>],
      [type |-> "node", id |-> 2, tags |-> [highway |-> "crossing"], loc |-> <<10, 0>>],
      [type |-> "node", id |-> 3, tags |-> [name |-> "nowhere"], loc |-> <<10, 10>>] }

\* tags.get(k, default)
tags_get(tags, k, default) == IF k \in DOMAIN tags THEN tags[k] ELSE default

\* [(n.lon, n.lat) for n in w.nodes] raises InvalidLocationError
coords_raise(w) == \E i \in 1..Len(w.nodes) : ~w.nodes[i].valid

\* [(n.lon, n.lat) for n in w.nodes], when it does not raise
node_coords(w) == [i \in 1..Len(w.nodes) |-> w.nodes[i].loc]

\* w.is_closed()
is_closed(w) == w.nodes[1].ref = w.nodes[Len(w.nodes)].ref

\* _ProgressHandler._tick: the log after the counter reached n
tick_log(n) == IF n % PROGRESS_EVERY = 0 THEN Append(log, "progress") ELSE log

road_skips_short3(w) ==
    tags_get(w.tags, "highway", "None") \notin _DRIVABLE \/ Len(w.nodes) < 3

\* if w.tags.get("highway") not in _DRIVABLE or len(w.nodes) < 2: return
road_skips(w) ==
    tags_get(w.tags, "highway", "None") \notin _DRIVABLE \/ Len(w.nodes) < 2

road_row(w) ==
    [id |-> w.id,
     name |-> tags_get(w.tags, "name", ""),
     highway |-> tags_get(w.tags, "highway", ""),
     oneway |-> tags_get(w.tags, "oneway", ""),
     geometry |-> [type |-> "LineString", coords |-> node_coords(w)]]

\* the wanted keys a feature carries, with their values
wanted_of(tags) ==
    [k \in (_DEFAULT_POI_TAGS \cap DOMAIN tags) |-> tags[k]]

poi_node_row(n) ==
    [geometry |-> [type |-> "Point", coords |-> <<n.loc>>],
     name |-> tags_get(n.tags, "name", ""),
     wanted |-> wanted_of(n.tags)]

\* geom = sg.Polygon(coords) if w.is_closed() else sg.LineString(coords); geom.centroid
poi_way_row(w) ==
    [geometry |-> [type |-> IF is_closed(w) THEN "PolygonCentroid" ELSE "LineCentroid",
                   coords |-> node_coords(w)],
     name |-> tags_get(w.tags, "name", ""),
     wanted |-> wanted_of(w.tags)]

InitExtract ==
    /\ call = [op |-> "none"]
    /\ out = << >>
    /\ ScanIdle
    /\ BuildIdle
    /\ handler \in {"roads", "pois"}
    /\ fed = << >> /\ rows = << >> /\ counter = 0 /\ log = << >> /\ xst = "running"

\* _RoadHandler.way(w)
RoadWay ==
    \E w \in SampleWays :
        /\ handler = "roads" /\ xst = "running" /\ Len(fed) < MaxObjects
        /\ fed' = Append(fed, w)
        /\ counter' = counter + 1
        /\ log' = tick_log(counter + 1)
        /\ rows' = IF road_skips(w) THEN rows
                   ELSE IF coords_raise(w) THEN rows
                   ELSE Append(rows, road_row(w))
        /\ UNCHANGED <<codecVars, scanVars, bVars, handler, xst>>

\* _POIHandler.node(n)
POINode ==
    \E n \in SampleNodes :
        /\ handler = "pois" /\ xst = "running" /\ Len(fed) < MaxObjects
        /\ fed' = Append(fed, n)
        /\ counter' = counter + 1
        /\ log' = tick_log(counter + 1)
        /\ rows' = IF _DEFAULT_POI_TAGS \cap DOMAIN n.tags = {} THEN rows
                   ELSE Append(rows, poi_node_row(n))
        /\ UNCHANGED <<codecVars, scanVars, bVars, handler, xst>>

\* _POIHandler.way(w)
POIWay ==
    \E w \in SampleWays :
        /\ handler = "pois" /\ xst = "running" /\ Len(fed) < MaxObjects
        /\ fed' = Append(fed, w)
        /\ counter' = counter + 1
        /\ log' = tick_log(counter + 1)
        /\ rows' = IF _DEFAULT_POI_TAGS \cap DOMAIN w.tags = {} THEN rows
                   ELSE IF coords_raise(w) THEN rows
                   ELSE IF Len(node_coords(w)) < 3 THEN rows
                   ELSE Append(rows, poi_way_row(w))
        /\ UNCHANGED <<codecVars, scanVars, bVars, handler, xst>>

\* apply_file returns: the file has no more objects
EndOfFile ==
    /\ xst = "running"
    /\ xst' = "done"
    /\ UNCHANGED <<codecVars, scanVars, bVars, handler, fed, rows, counter, log>>

NextExtract == RoadWay \/ POINode \/ POIWay \/ EndOfFile

SpecExtract == InitExtract /\ [][NextExtract]_vars

Resolves(w) == \A i \in 1..Len(w.nodes) : w.nodes[i].valid

Drivable(w) == "highway" \in DOMAIN w.tags /\ w.tags["highway"] \in _DRIVABLE

KeptRoad(w) == Drivable(w) /\ Len(w.nodes) >= 2 /\ Resolves(w)

\* C5: a Road record is emitted for a way iff its highway class is in the drivable
\* allow-list, it has at least 2 vertices and every vertex resolves; the records
\* are in source order, and a dropped way changes nothing before or after it.
C5_RoadsRetainedIff ==
    handler = "roads" =>
        LET kept == SelectSeq(fed, KeptRoad)
        IN  /\ Len(rows) = Len(kept)
            /\ \A i \in 1..Len(rows) :
                   /\ rows[i].id = kept[i].id
                   /\ rows[i].highway = kept[i].tags["highway"]
                   /\ rows[i].geometry.coords = [j \in 1..Len(kept[i].nodes) |-> kept[i].nodes[j].loc]

\* scenario A: two residential ways and one path way give exactly 2 records; a way
\* with an unresolved vertex sits between two retained ways
C5_Witness ==
    /\ handler = "roads" /\ Len(fed) = 3 /\ Len(rows) = 2
    /\ Cardinality({i \in 1..3 : tags_get(fed[i].tags, "highway", "") = "residential"}) = 2
    /\ \E i \in 1..3 : tags_get(fed[i].tags, "highway", "") = "path"

C5_WitnessUnresolved ==
    /\ handler = "roads" /\ Len(fed) = 3 /\ Len(rows) = 2
    /\ ~Resolves(fed[2]) /\ rows[1].id = fed[1].id /\ rows[2].id = fed[3].id

HasWantedKey(o) == _DEFAULT_POI_TAGS \cap DOMAIN o.tags # {}

\* C6: a point feature is a POI iff its tag keys meet the allow-list, and a way is
\* retained under exactly that rule, whatever its vertices, as a polygon centroid
\* (closed ring) or a line centroid (open path).
C6_POIRetainedByTagsAlone ==
    handler = "pois" =>
        LET kept == SelectSeq(fed, HasWantedKey)
        IN  /\ Len(rows) = Len(kept)
            /\ \A i \in 1..Len(rows) :
                   rows[i].geometry.type =
                       IF kept[i].type = "node" THEN "Point"
                       ELSE IF is_closed(kept[i]) THEN "PolygonCentroid"
                       ELSE "LineCentroid"

\* what _POIHandler does retain: allow-listed nodes, and allow-listed ways with at
\* least 3 vertices, all of them resolved
KeptPOI(o) ==
    HasWantedKey(o) /\ (o.type = "node" \/ (Resolves(o) /\ Len(o.nodes) >= 3))

POIRetainedAsCoded ==
    handler = "pois" =>
        LET kept == SelectSeq(fed, KeptPOI)
        IN  /\ Len(rows) = Len(kept)
            /\ \A i \in 1..Len(rows) :
                   rows[i].geometry.type =
                       IF kept[i].type = "node" THEN "Point"
                       ELSE IF is_closed(kept[i]) THEN "PolygonCentroid"
                       ELSE "LineCentroid"

\* a feature the handler would keep but for its geometry
Unusable(o) ==
    /\ o.type = "way"
    /\ IF handler = "roads" THEN Drivable(o) ELSE HasWantedKey(o)
    /\ ~Resolves(o) \/ Len(o.nodes) < 2

IsSkipLine(line) == line = "skip"

\* C7: a feature with unusable geometry is skipped, the skip is counted and logged,
\* and extraction goes on with the next feature without raising.
C7_SkipsCountedAndLogged ==
    LET unusable == SelectSeq(fed, Unusable)
    IN  /\ \A i \in 1..Len(unusable) :
               \A j \in 1..Len(rows) :
                   handler = "roads" => rows[j].id # unusable[i].id
        /\ counter = Len(fed)
        /\ Len(SelectSeq(log, IsSkipLine)) = Len(unusable)

\* what the handlers do on such a feature: nothing is appended, nothing is logged,
\* and the pass goes on
SkipsAreSilent ==
    /\ counter = Len(fed)
    /\ log = << >>
    /\ xst = "running" \/ xst = "done"
    /\ Len(rows) <= Len(fed) - Len(SelectSeq(fed, Unusable))

----------------------------------------------------------------------------
(* Spec: one run of build(regions, out_iso, work) over a small world        *)

\* text is a sequence of one-character strings
Min(a, b) == IF a < b THEN a ELSE b

UpperChar(c) ==
    CASE c = "e" -> "E" [] c = "u" -> "U" [] c = "s" -> "S" [] c = "g" -> "G"
      [] c = "o" -> "O" [] c = "r" -> "R" [] c = "a" -> "A" [] OTHER -> c

str_upper(s) == [i \in 1..Len(s) |-> UpperChar(s[i])]

str_replace(s, a, b) == [i \in 1..Len(s) |-> IF s[i] = a THEN b ELSE s[i]]

\* pathlib.Path(s).name: what follows the last "/"
path_name(s) ==
    LET slashes == {i \in 1..Len(s) : s[i] = "/"}
        last    == IF slashes = {} THEN 0 ELSE CHOOSE i \in slashes : \A j \in slashes : j <= i
    IN  SubSeq(s, last + 1, Len(s))

RECURSIVE str_int(_)
str_int(n) ==
    LET digit == <<"0", "1", "2", "3", "4", "5", "6", "7", "8", "9">>[(n % 10) + 1]
    IN  IF n < 10 THEN <<digit>> ELSE str_int(n \div 10) \o <<digit>>

stem_of(region) == str_replace(str_upper(path_name(region)), "-", "_")

code_of(region) == SubSeq(stem_of(region), 1, Min(2, Len(stem_of(region))))

pbf_path_of(region) ==
    str_replace(region, "/", "-") \o <<".", "o", "s", "m", ".", "p", "b", "f">>

SDL_EXT == <<".", "S", "D", "L">>

fast_name(region) == stem_of(region) \o <<"F">> \o SDL_EXT
map_name(region)  == stem_of(region) \o <<"M">> \o SDL_EXT
idx_name(region)  == stem_of(region) \o <<".", "b", "p", "t">>

POINAMES_SDL == <<"P", "O", "I", "N", "A", "M", "E", "S">> \o SDL_EXT
POIGEOM_SDL  == <<"P", "O", "I", "G", "E", "O", "M">> \o SDL_EXT
POI_BPT      == <<"P", "O", "I", ".", "b", "p", "t">>
MTOC_SDL     == <<"M", "T", "O", "C">> \o SDL_EXT
CARTOTOP_SDL == <<"C", "A", "R", "T", "O", "T", "O", "P">> \o SDL_EXT
REGION_SDL   == <<"R", "E", "G", "I", "O", "N">> \o SDL_EXT
REGIONS_SDL  == <<"R", "E", "G", "I", "O", "N", "S">> \o SDL_EXT
KDTREE_SDL   == <<"K", "D", "T", "R", "E", "E">> \o SDL_EXT

\* the parcel kind ids of constants.py, kept symbolic; the manifest is the literal 0
MANIFEST_PID        == "0"
CARTO_PARCEL_ID     == "CARTO_PARCEL_ID"
NAV_PARCEL_ID       == "NAV_PARCEL_ID"
KDTREE_PARCEL_ID    == "KDTREE_PARCEL_ID"
BTREE_PARCEL_ID     == "BTREE_PARCEL_ID"
DENS_PARCEL_ID      == "DENS_PARCEL_ID"
POI_NAME_PARCEL_ID  == "POI_NAME_PARCEL_ID"
POI_GEOM_PARCEL_ID  == "POI_GEOM_PARCEL_ID"
POI_INDEX_PARCEL_ID == "POI_INDEX_PARCEL_ID"

\* ---- the world: what each region's extract holds ----
\* coordinates are whole numbers of 1e-7 degree, the resolution of OSM data

REGION_A == <<"e", "u", "/", "g", "e", "o">>
REGION_B == <<"u", "s", "/", "g", "e", "o">>          \* same last component as REGION_A
REGION_C == <<"e", "u", "/", "g", "e", "r">>          \* same first two letters as REGION_A
REGION_D == <<"e", "u", "/", "a", "-", "o">>          \* a hyphen in the last component

Regions == {REGION_A, REGION_B, REGION_C, REGION_D}

RegionLists == UNION {[1..n -> Regions] : n \in 1..MaxRegions}

\* rows of extract_driving_roads: id, name, LineString coordinates (lon, lat)
WorldRoads(region) ==
    CASE region = REGION_A ->
           << [id |-> 101, name |-> <<65>>,
               coords |-> << <<331000005, 351000000>>, <<331000205, 351000000>> >>],
              [id |-> 102, name |-> << >>,
               coords |-> << <<331000205, 351000000>>, <<331000205, 351000100>>,
                             <<331000405, 351000100>> >>] >>
      [] region = REGION_B ->
           << [id |-> 201, name |-> <<233>>,
               coords |-> << <<-841000015, 331000000>>, <<-841000215, 331000000>>,
                             <<-841000215, 331000400>> >>] >>
      [] region = REGION_C ->
           << [id |-> 401, name |-> <<65>>,
               coords |-> << <<131000000, 521000000>>, <<131000300, 521000000>> >>] >>
      [] region = REGION_D ->
           << [id |-> 301, name |-> <<65, 0, 65>>,
               coords |-> << <<101000000, 501000009>>, <<101000000, 501000209>> >>] >>

\* rows of extract_pois: name and geometry (a Point, or the Polygon of a closed way)
WorldPOIs(region) ==
    CASE region = REGION_A ->
           << [name |-> <<65>>,  geom |-> [type |-> "Point", x |-> 331000015, y |-> 351000019]],
              [name |-> << >>,   geom |-> [type |-> "Point", x |-> 331000305, y |-> 351000100]] >>
      [] region = REGION_B -> << >>
      [] region = REGION_C ->
           << [name |-> <<65>>,  geom |-> [type |-> "Point", x |-> 131000100, y |-> 521000050]] >>
      [] region = REGION_D ->
           << [name |-> <<233>>,
               geom |-> [type |-> "Polygon", minx |-> -15, miny |-> 501000000,
                         maxx |-> 25, maxy |-> 501000200]] >>

\* ---- geometry and fixed-point helpers ----

Abs(v) == IF v < 0 THEN 0 - v ELSE v

\* int(v * 1e6) for v degrees: truncation toward zero
fixed6(v) == IF v >= 0 THEN v \div 10 ELSE 0 - ((0 - v) \div 10)

pack_u16_le(n) == <<n % 256, (n \div 256) % 256>>
pack_u32_le(n) == pack_u16_le(n % 65536) \o pack_u16_le((n \div 65536) % 65536)
\* two's complement: % and \div round toward minus infinity
pack_i32_le(v) == pack_u16_le(v % 65536) \o pack_u16_le((v \div 65536) % 65536)

\* shapely LineString.centroid: the length-weighted mean of the segment midpoints
\* (segments of the world are axis-parallel, so lengths are whole numbers)
RECURSIVE seg_sum(_, _, _)
seg_sum(coords, i, f) ==
    IF i >= Len(coords) THEN 0
    ELSE LET len == Abs(coords[i + 1][1] - coords[i][1]) + Abs(coords[i + 1][2] - coords[i][2])
         IN  len * f[i] + seg_sum(coords, i + 1, f)

line_centroid(coords) ==
    LET ones == [i \in 1..Len(coords) |-> 1]
        dx   == [i \in 1..Len(coords) |->
                    IF i < Len(coords) THEN coords[i][1] + coords[i + 1][1] - 2 * coords[1][1] ELSE 0]
        dy   == [i \in 1..Len(coords) |->
                    IF i < Len(coords) THEN coords[i][2] + coords[i + 1][2] - 2 * coords[1][2] ELSE 0]
        tot  == seg_sum(coords, 1, ones)
    IN  <<coords[1][1] + seg_sum(coords, 1, dx) \div (2 * tot),
          coords[1][2] + seg_sum(coords, 1, dy) \div (2 * tot)>>

\* main.py 3.b: a geometry that is not a Point is replaced by its centroid
poi_point(geom) ==
    IF geom.type = "Point" THEN <<geom.x, geom.y>>
    ELSE <<(geom.minx + geom.maxx) \div 2, (geom.miny + geom.maxy) \div 2>>

_iter_coords(geom) == geom

\* ---- the functions build() calls ----

parcel_of(pid, body) == [pid |-> pid, body |-> body]

parcel_size(p) == PARCEL_HEADER_LEN + Len(p.body)

\* Path.write_bytes: the file holds exactly what this call wrote
write_bytes(files, name, content) ==
    [n \in DOMAIN files \cup {name} |-> IF n = name THEN content ELSE files[n]]

files_append_lost(files, path) == files

\* list.append of a finished path
files_append(files, path) == Append(files, path)

fetch(cache, region, dest) ==
    IF dest \in DOMAIN cache THEN cache ELSE write_bytes(cache, dest, region)

load_road_network(pbf) == WorldRoads(pbf)

load_poi_data(pbf) == WorldPOIs(pbf)

RECURSIVE road_payload(_)
road_payload(recs) ==
    IF recs = << >> THEN << >>
    ELSE LET wid    == recs[1][1]
             coords == recs[1][2]
             RECURSIVE vertices(_)
             vertices(i) ==
                 IF i > Len(coords) THEN << >>
                 ELSE pack_i32_le(fixed6(coords[i][1])) \o pack_i32_le(fixed6(coords[i][2]))
                          \o vertices(i + 1)
         IN  pack_u32_le(wid) \o pack_u16_le(Len(coords)) \o vertices(1)
                 \o road_payload(Tail(recs))

encode_road_records(pid, recs) == parcel_of(pid, road_payload(recs))

\* cKDTree(points): the points are kept in the order given; a list with no
\* point is not a two-dimensional array and raises ValueError
build_kdtree(points) == [ok |-> points # << >>, data |-> points]

RECURSIVE kd_bytes(_, _)
kd_bytes(kd, i) ==
    IF i > Len(kd) THEN << >>
    ELSE pack_u32_le(i - 1) \o pack_i32_le(fixed6(kd[i][1])) \o pack_i32_le(fixed6(kd[i][2]))
             \o kd_bytes(kd, i + 1)

serialize_kdtree(kd) == kd_bytes(kd.data, 1)

\* bplustree: the file at the path is opened if it exists; insert of a key the
\* tree already holds raises ValueError
RECURSIVE tree_insert_all(_, _)
tree_insert_all(tree, pairs) ==
    IF pairs = << >> THEN [ok |-> TRUE, tree |-> tree]
    ELSE IF pairs[1][1] \in DOMAIN tree THEN [ok |-> FALSE, tree |-> tree]
    ELSE tree_insert_all(
             [k \in DOMAIN tree \cup {pairs[1][1]} |->
                 IF k = pairs[1][1] THEN pairs[1][2] ELSE tree[k]],
             Tail(pairs))

build_bplustree(pairs, path, trees) ==
    tree_insert_all(IF path \in DOMAIN trees THEN trees[path] ELSE << >>, pairs)

dump_bplustree(path, trees) == trees[path]

build_manifest_payload(rs, names) == [files |-> [i \in 1..Len(names) |-> [name |-> names[i]]]]

\* a loop that numbers the POIs by their row in the region's frame (geom_idx)
RECURSIVE poi_rows(_, _, _)
poi_rows(st, pois, geom_idx) ==
    IF pois = << >> THEN st
    ELSE LET pt      == poi_point(pois[1].geom)
             payload == pack_i32_le(fixed6(pt[2])) \o pack_i32_le(fixed6(pt[1]))
         IN  poi_rows([records |-> Append(st.records, <<geom_idx, payload>>),
                       offsets |-> Append(st.offsets, <<geom_idx, st.acc>>),
                       acc     |-> st.acc + Len(payload) + 6,
                       counter |-> st.counter + 1],
                      Tail(pois), geom_idx + 1)

poi_loop_geom_idx(st, pois) == poi_rows(st, pois, 0)

\* main.py 3.b: the loop over one region's POI geometries
RECURSIVE poi_loop(_, _)
poi_loop(st, pois) ==
    IF pois = << >> THEN st
    ELSE LET pt      == poi_point(pois[1].geom)
             payload == pack_i32_le(fixed6(pt[2])) \o pack_i32_le(fixed6(pt[1]))
         IN  poi_loop([records |-> Append(st.records, <<st.counter, payload>>),
                       offsets |-> Append(st.offsets, <<st.counter, st.acc>>),
                       acc     |-> st.acc + Len(payload) + 6,
                       counter |-> st.counter + 1],
                      Tail(pois))

\* main.py 4: the planned file names
RECURSIVE region_filenames(_)
region_filenames(rs) ==
    IF rs = << >> THEN << >>
    ELSE <<fast_name(rs[1]), map_name(rs[1])>> \o region_filenames(Tail(rs))

planned_filenames(rs) ==
    <<MTOC_SDL, CARTOTOP_SDL, REGION_SDL, REGIONS_SDL, KDTREE_SDL>> \o region_filenames(rs)

\* main.py 5: the tiles of one region in loop order (Z, then tx, then ty)
MaxZoom == 3

RECURSIVE tiles_from(_)
tiles_from(Z) ==
    IF Z > MaxZoom THEN << >>
    ELSE LET num_tiles == 2 ^ Z
         IN  [k \in 1..(num_tiles * num_tiles) |->
                 [Z |-> Z, tx |-> (k - 1) \div num_tiles, ty |-> (k - 1) % num_tiles,
                  num_tiles |-> num_tiles]]
             \o tiles_from(Z + 1)

dens_filename(region, t) ==
    <<"D", "E", "N", "S">> \o code_of(region) \o str_int(t.Z)
        \o str_int(t.ty * t.num_tiles + t.tx) \o SDL_EXT

\* main.py 6: the loop over one region's roads
RECURSIVE road_loop(_, _)
road_loop(st, roads) ==
    IF roads = << >> THEN st
    ELSE LET coords == _iter_coords(roads[1].coords)
             size   == 6 + Len(coords) * 16
         IN  road_loop([records |-> Append(st.records, <<roads[1].id, coords>>),
                        offsets |-> Append(st.offsets, <<roads[1].id, st.off>>),
                        off     |-> st.off + size],
                       Tail(roads))

\* iso.py: the name a path gets in the image
iso_name(path) == str_upper(path)

\* ---- the run ----

Init ==
    /\ call = [op |-> "none"] /\ out = << >>
    /\ ScanIdle
    /\ ExtractIdle
    /\ regions \in RegionLists
    /\ pc = "validate" /\ ri = 1
    /\ pbfs = << >> /\ fs = << >> /\ bpt = << >>
    /\ all_centroids = << >> /\ kd_blob = << >> /\ all_poi_names = << >>
    /\ poi_records = << >> /\ poi_offsets = << >> /\ offset_acc = 0
    /\ poi_index_counter = 0 /\ poi_index_blob = << >>
    /\ filenames = << >> /\ global_files = << >> /\ region_files = << >>
    /\ records = << >> /\ offsets = << >> /\ iso_input = <<"none">>
    /\ error = "none" /\ report = << >> /\ prior = [pc |-> "none"]

otherVars == <<codecVars, scanVars, xVars>>

\* what a step that raises nothing leaves alone
quietVars == <<error, report, prior>>

\* main.py 388-390: the except clause logs "Build failed" and re-raises
Raised(exception) ==
    /\ pc' = "failed"
    /\ error' = exception
    /\ report' = Append(report, "Build failed")

\* main.py 0: every slug is probed; a miss is logged and ends the process
\* with sys.exit(1), before the try block
Validate ==
    /\ pc = "validate"
    /\ \E exists \in BOOLEAN :
           IF exists THEN pc' = "roads" /\ UNCHANGED <<error, report>>
           ELSE /\ pc' = "exit"
                /\ error' = "SystemExit"
                /\ report' = Append(report, "Region slug not found")
    /\ UNCHANGED <<otherVars, prior, regions, ri, pbfs, fs, bpt, all_centroids, kd_blob, all_poi_names,
                   poi_records, poi_offsets, offset_acc, poi_index_counter, poi_index_blob,
                   filenames, global_files, region_files, records, offsets, iso_input>>

\* the loop position after one region of a `for region in regions` loop
NextRegion(here, after) ==
    IF ri < Len(regions) THEN pc' = here /\ ri' = ri + 1
    ELSE pc' = after /\ ri' = 1

\* main.py 1: fetch one region, load its roads, keep the centroids
LoadRoads ==
    /\ pc = "roads"
    /\ LET region   == regions[ri]
           pbf_path == pbf_path_of(region)
           cache    == fetch(pbfs, region, pbf_path)
           roads_df == load_road_network(cache[pbf_path])
       IN  /\ pbfs' = cache
           /\ all_centroids' = all_centroids
                  \o [i \in 1..Len(roads_df) |-> line_centroid(roads_df[i].coords)]
    /\ NextRegion("roads", "kd")
    /\ UNCHANGED <<otherVars, quietVars, regions, fs, bpt, kd_blob, all_poi_names,
                   poi_records, poi_offsets, offset_acc, poi_index_counter, poi_index_blob,
                   filenames, global_files, region_files, records, offsets, iso_input>>

\* main.py 2
BuildKd ==
    /\ pc = "kd"
    /\ LET kd == build_kdtree(all_centroids)
       IN  IF kd.ok
           THEN kd_blob' = serialize_kdtree(kd) /\ pc' = "pois" /\ UNCHANGED <<error, report>>
           ELSE kd_blob' = kd_blob /\ Raised("ValueError")
    /\ UNCHANGED <<otherVars, prior, regions, ri, pbfs, fs, bpt, all_centroids, all_poi_names,
                   poi_records, poi_offsets, offset_acc, poi_index_counter, poi_index_blob,
                   filenames, global_files, region_files, records, offsets, iso_input>>

\* main.py 3, 3.a, 3.b: one region's POIs
LoadPOIs ==
    /\ pc = "pois"
    /\ LET pois_df == load_poi_data(pbfs[pbf_path_of(regions[ri])])
           st      == poi_loop([records |-> poi_records, offsets |-> poi_offsets,
                                acc |-> offset_acc, counter |-> poi_index_counter], pois_df)
       IN  /\ all_poi_names' = all_poi_names \o [i \in 1..Len(pois_df) |-> pois_df[i].name]
           /\ poi_records' = st.records
           /\ poi_offsets' = st.offsets
           /\ offset_acc' = st.acc
           /\ poi_index_counter' = st.counter
    /\ NextRegion("pois", "poinames")
    /\ UNCHANGED <<otherVars, quietVars, regions, pbfs, fs, bpt, all_centroids, kd_blob, poi_index_blob,
                   filenames, global_files, region_files, records, offsets, iso_input>>

\* main.py 3.c
WritePoiNames ==
    /\ pc = "poinames"
    /\ fs' = write_bytes(fs, POINAMES_SDL,
                         <<parcel_of(POI_NAME_PARCEL_ID, strings_raw(all_poi_names))>>)
    /\ global_files' = files_append(global_files, POINAMES_SDL)
    /\ pc' = "poiindex"
    /\ UNCHANGED <<otherVars, quietVars, regions, ri, pbfs, bpt, all_centroids, kd_blob, all_poi_names,
                   poi_records, poi_offsets, offset_acc, poi_index_counter, poi_index_blob,
                   filenames, region_files, records, offsets, iso_input>>

\* main.py 3.d, first half: the POI offset index
BuildPoiIndex ==
    /\ pc = "poiindex"
    /\ LET built == build_bplustree(poi_offsets, POI_BPT, bpt)
           trees == write_bytes(bpt, POI_BPT, built.tree)
       IN  /\ bpt' = trees
           /\ IF built.ok
              THEN /\ poi_index_blob' = dump_bplustree(POI_BPT, trees) /\ pc' = "poigeom"
                   /\ UNCHANGED <<error, report>>
              ELSE poi_index_blob' = poi_index_blob /\ Raised("ValueError")
    /\ UNCHANGED <<otherVars, prior, regions, ri, pbfs, fs, all_centroids, kd_blob, all_poi_names,
                   poi_records, poi_offsets, offset_acc, poi_index_counter,
                   filenames, global_files, region_files, records, offsets, iso_input>>

\* main.py 3.d, second half: one parcel per POI, then the index parcel
WritePoiGeom ==
    /\ pc = "poigeom"
    /\ fs' = write_bytes(fs, POIGEOM_SDL,
                 [i \in 1..Len(poi_records) |-> parcel_of(POI_GEOM_PARCEL_ID, poi_records[i][2])]
                     \o <<parcel_of(POI_INDEX_PARCEL_ID, poi_index_blob)>>)
    /\ global_files' = files_append(global_files, POIGEOM_SDL)
    /\ pc' = "manifest"
    /\ UNCHANGED <<otherVars, quietVars, regions, ri, pbfs, bpt, all_centroids, kd_blob, all_poi_names,
                   poi_records, poi_offsets, offset_acc, poi_index_counter, poi_index_blob,
                   filenames, region_files, records, offsets, iso_input>>

\* main.py 4, first half: the planned names and the manifest
WriteManifest ==
    /\ pc = "manifest"
    /\ filenames' = planned_filenames(regions)
    /\ fs' = write_bytes(fs, MTOC_SDL,
                 <<parcel_of(MANIFEST_PID, build_manifest_payload(regions, filenames'))>>)
    /\ global_files' = files_append(global_files, MTOC_SDL)
    /\ pc' = "globals"
    /\ UNCHANGED <<otherVars, quietVars, regions, ri, pbfs, bpt, all_centroids, kd_blob, all_poi_names,
                   poi_records, poi_offsets, offset_acc, poi_index_counter, poi_index_blob,
                   region_files, records, offsets, iso_input>>

\* main.py 4, second half: the four global parcels; all_centroids is dropped after them
WriteGlobals ==
    /\ pc = "globals"
    /\ LET f1 == write_bytes(fs, CARTOTOP_SDL, <<parcel_of(CARTO_PARCEL_ID, << >>)>>)
           f2 == write_bytes(f1, REGION_SDL, <<parcel_of(NAV_PARCEL_ID, << >>)>>)
           f3 == write_bytes(f2, REGIONS_SDL, <<parcel_of(BTREE_PARCEL_ID, << >>)>>)
       IN  fs' = write_bytes(f3, KDTREE_SDL, <<parcel_of(KDTREE_PARCEL_ID, kd_blob)>>)
    /\ global_files' = files_append(files_append(files_append(files_append(
                           global_files, CARTOTOP_SDL), REGION_SDL), REGIONS_SDL), KDTREE_SDL)
    /\ all_centroids' = << >>
    /\ pc' = "density"
    /\ UNCHANGED <<otherVars, quietVars, regions, ri, pbfs, bpt, kd_blob, all_poi_names,
                   poi_records, poi_offsets, offset_acc, poi_index_counter, poi_index_blob,
                   filenames, region_files, records, offsets, iso_input>>

\* main.py 5: the paths of one region's tiles, in the order they are written
dens_paths(region, tiles) ==
    << >> \o [k \in 1..Len(tiles) |-> dens_filename(region, tiles[k])]

\* the tile whose write is the last one to a path
last_write(paths, n) ==
    CHOOSE k \in 1..Len(paths) :
        paths[k] = n /\ \A j \in (k + 1)..Len(paths) : paths[j] # n

\* main.py 5: the density tiles of one region, one file per tile; a path
\* written twice holds the later tile
WriteDensity ==
    /\ pc = "density"
    /\ \E tiles \in {tiles_from(0)} :
       \E paths \in {dens_paths(regions[ri], tiles)} :
       \E names \in {{paths[k] : k \in 1..Len(paths)}} :
           /\ fs' = [n \in DOMAIN fs \cup names |->
                        IF n \in names
                        THEN <<parcel_of(DENS_PARCEL_ID,
                                   [region |-> regions[ri], tile |-> tiles[last_write(paths, n)]])>>
                        ELSE fs[n]]
           /\ global_files' = global_files \o paths
    /\ NextRegion("density", "rnames")
    /\ UNCHANGED <<otherVars, quietVars, regions, pbfs, bpt, all_centroids, kd_blob, all_poi_names,
                   poi_records, poi_offsets, offset_acc, poi_index_counter, poi_index_blob,
                   filenames, region_files, records, offsets, iso_input>>

\* main.py 6.a, first write: the road names of one region
WriteRegionNames ==
    /\ pc = "rnames"
    /\ LET region   == regions[ri]
           roads_df == load_road_network(pbfs[pbf_path_of(region)])
           names    == [i \in 1..Len(roads_df) |-> roads_df[i].name]
       IN  fs' = write_bytes(fs, fast_name(region),
                             <<parcel_of(NAV_PARCEL_ID, strings_raw(names))>>)
    /\ pc' = "rindex"
    /\ UNCHANGED <<otherVars, quietVars, regions, ri, pbfs, bpt, all_centroids, kd_blob, all_poi_names,
                   poi_records, poi_offsets, offset_acc, poi_index_counter, poi_index_blob,
                   filenames, global_files, region_files, records, offsets, iso_input>>

\* main.py 6.a, second write: records and offsets, the region's index, the index parcel
WriteRegionIndex ==
    /\ pc = "rindex"
    /\ LET region   == regions[ri]
           roads_df == load_road_network(pbfs[pbf_path_of(region)])
           st       == road_loop([records |-> << >>, offsets |-> << >>, off |-> 0], roads_df)
           built    == build_bplustree(st.offsets, idx_name(region), bpt)
           trees    == write_bytes(bpt, idx_name(region), built.tree)
       IN  /\ records' = st.records
           /\ offsets' = st.offsets
           /\ bpt' = trees
           /\ IF built.ok
              THEN /\ fs' = write_bytes(fs, fast_name(region),
                              <<parcel_of(BTREE_PARCEL_ID, dump_bplustree(idx_name(region), trees))>>)
                   /\ region_files' = files_append(region_files, fast_name(region))
                   /\ pc' = "rcarto"
                   /\ UNCHANGED <<error, report>>
              ELSE /\ UNCHANGED <<fs, region_files>>
                   /\ Raised("ValueError")
    /\ UNCHANGED <<otherVars, prior, regions, ri, pbfs, all_centroids, kd_blob, all_poi_names,
                   poi_records, poi_offsets, offset_acc, poi_index_counter, poi_index_blob,
                   filenames, global_files, iso_input>>

\* main.py 6.b, first write: the road records of one region
WriteRegionCarto ==
    /\ pc = "rcarto"
    /\ fs' = write_bytes(fs, map_name(regions[ri]),
                         <<encode_road_records(CARTO_PARCEL_ID, records)>>)
    /\ pc' = "rkd"
    /\ UNCHANGED <<otherVars, quietVars, regions, ri, pbfs, bpt, all_centroids, kd_blob, all_poi_names,
                   poi_records, poi_offsets, offset_acc, poi_index_counter, poi_index_blob,
                   filenames, global_files, region_files, records, offsets, iso_input>>

\* main.py 6.b, second write: the KD parcel; the map file is finished
WriteRegionKd ==
    /\ pc = "rkd"
    /\ fs' = write_bytes(fs, map_name(regions[ri]), <<parcel_of(KDTREE_PARCEL_ID, kd_blob)>>)
    /\ region_files' = files_append(region_files, map_name(regions[ri]))
    /\ NextRegion("rnames", "iso")
    /\ UNCHANGED <<otherVars, quietVars, regions, pbfs, bpt, all_centroids, kd_blob, all_poi_names,
                   poi_records, poi_offsets, offset_acc, poi_index_counter, poi_index_blob,
                   filenames, global_files, records, offsets, iso_input>>

\* main.py 7 and iso.py: every path of the list is added under its upper-cased
\* name; a name added twice, a path that is not on disk or a failed write raises
WriteIso ==
    /\ pc = "iso"
    /\ LET files == global_files \o region_files
           addable == /\ \A i \in 1..Len(files) : files[i] \in DOMAIN fs
                      /\ \A i, j \in 1..Len(files) :
                             iso_name(files[i]) = iso_name(files[j]) => i = j
       IN  /\ iso_input' = files
           /\ \E written \in BOOLEAN :
                  IF addable /\ written THEN pc' = "done" /\ UNCHANGED <<error, report>>
                  ELSE Raised("PyCdlibException")
    /\ UNCHANGED <<otherVars, prior, regions, ri, pbfs, fs, bpt, all_centroids, kd_blob, all_poi_names,
                   poi_records, poi_offsets, offset_acc, poi_index_counter, poi_index_blob,
                   filenames, global_files, region_files, records, offsets>>

\* an except clause that logs the error and lets the run go on to the writer
RaiseAndGoOn ==
    /\ pc \in {"roads", "kd", "pois", "poinames", "poiindex", "poigeom", "manifest",
               "globals", "density", "rnames", "rindex", "rcarto", "rkd"}
    /\ pc' = "iso"
    /\ error' = "Exception"
    /\ report' = Append(report, "Build failed")
    /\ UNCHANGED <<otherVars, prior, regions, ri, pbfs, fs, bpt, all_centroids, kd_blob, all_poi_names,
                   poi_records, poi_offsets, offset_acc, poi_index_counter, poi_index_blob,
                   filenames, global_files, region_files, records, offsets, iso_input>>

\* main.py 388-390: an exception raised by a step before the image writer
\* (download, extraction, disk) is logged and re-raised; the run ends
Raise ==
    /\ pc \in {"roads", "kd", "pois", "poinames", "poiindex", "poigeom", "manifest",
               "globals", "density", "rnames", "rindex", "rcarto", "rkd"}
    /\ Raised("Exception")
    /\ UNCHANGED <<otherVars, prior, regions, ri, pbfs, fs, bpt, all_centroids, kd_blob, all_poi_names,
                   poi_records, poi_offsets, offset_acc, poi_index_counter, poi_index_blob,
                   filenames, global_files, region_files, records, offsets, iso_input>>

Next ==
    \/ Validate \/ LoadRoads \/ BuildKd \/ LoadPOIs \/ WritePoiNames \/ BuildPoiIndex
    \/ WritePoiGeom \/ WriteManifest \/ WriteGlobals \/ WriteDensity
    \/ WriteRegionNames \/ WriteRegionIndex \/ WriteRegionCarto \/ WriteRegionKd
    \/ WriteIso \/ Raise

Spec == Init /\ [][Next]_vars

\* ---- C8 ----

u_le(bs, at, n) ==
    LET RECURSIVE val(_)
        val(k) == IF k = 0 THEN 0 ELSE val(k - 1) * 256 + bs[at + (n - k) + 1]
    IN  val(n)

\* the records of a road payload with the byte position each begins at
RECURSIVE road_record_starts(_, _)
road_record_starts(payload, at) ==
    IF at >= Len(payload) THEN << >>
    ELSE <<[id |-> u_le(payload, at, 4), at |-> at]>>
             \o road_record_starts(payload, at + 6 + 8 * u_le(payload, at + 4, 2))

\* the byte position at which the k-th parcel of a file begins
RECURSIVE parcel_start(_, _)
parcel_start(file, k) ==
    IF k = 1 THEN 0 ELSE parcel_start(file, k - 1) + parcel_size(file[k - 1])

CartoWritten == pc = "rkd"

PoiGeomWritten == POIGEOM_SDL \in DOMAIN fs

RoadOffsetsPointAtRecords ==
    CartoWritten =>
        LET starts == road_record_starts(fs[map_name(regions[ri])][1].body, 0)
        IN  \A i \in 1..Len(offsets) :
                \E j \in 1..Len(starts) :
                    starts[j].id = offsets[i][1] /\ starts[j].at = offsets[i][2]

PoiOffsetsPointAtRecords ==
    PoiGeomWritten =>
        \A i \in 1..Len(poi_offsets) :
            /\ fs[POIGEOM_SDL][i].body = poi_records[i][2]
            /\ poi_offsets[i][2] = parcel_start(fs[POIGEOM_SDL], i)

\* C8: every (key, offset) pair put into an offset index is the byte position
\* at which that key's record begins in the blob written beside it: a road's
\* 6-byte sub-header inside the payload of encode_road_records, a POI's record
\* inside the POI geometry file.
C8_OffsetsPointAtRecords == RoadOffsetsPointAtRecords /\ PoiOffsetsPointAtRecords

\* what the code does hold to: the first pair of every index is offset 0, and
\* the payload places a record every 6 + 8 * vertices bytes
RoadRecordsAreDense ==
    CartoWritten =>
        LET starts == road_record_starts(fs[map_name(regions[ri])][1].body, 0)
        IN  /\ Len(starts) = Len(records)
            /\ \A i \in 1..Len(starts) :
                   /\ starts[i].id = records[i][1]
                   /\ i < Len(starts) => starts[i + 1].at = starts[i].at + 6 + 8 * Len(records[i][2])
                   /\ offsets[i][1] = records[i][1]
                   /\ i < Len(starts) => offsets[i + 1][2] = offsets[i][2] + 6 + 16 * Len(records[i][2])

\* ---- C9 ----

Kinds_of(file) == [i \in 1..Len(file) |-> file[i].pid]

RegionsAssembled == pc \in {"iso", "done"}

\* C9: once the regions are assembled, every region's F file holds the
\* road-name parcel followed by the offset-index parcel and its M file the
\* road-geometry parcel followed by the point-index parcel; no parcel written
\* to a file is lost to a later write.
C9_RegionFilesHoldTwoParcels ==
    RegionsAssembled =>
        \A i \in 1..Len(regions) :
            /\ Kinds_of(fs[fast_name(regions[i])]) = <<NAV_PARCEL_ID, BTREE_PARCEL_ID>>
            /\ Kinds_of(fs[map_name(regions[i])]) = <<CARTO_PARCEL_ID, KDTREE_PARCEL_ID>>

\* what the files do hold: the parcel of the second write only
RegionFilesHoldLastParcel ==
    RegionsAssembled =>
        \A i \in 1..Len(regions) :
            /\ Kinds_of(fs[fast_name(regions[i])]) = <<BTREE_PARCEL_ID>>
            /\ Kinds_of(fs[map_name(regions[i])]) = <<KDTREE_PARCEL_ID>>

\* ---- C10 ----

WriterInvoked == iso_input # <<"none">>

\* C10: the image writer is invoked only when every planned file name (the
\* five global names, then F and M of every region, the names the manifest
\* lists) is the name of a written file in the list handed to the writer.
C10_WriterGetsEveryPlannedFile ==
    WriterInvoked =>
        /\ filenames = planned_filenames(regions)
        /\ fs[MTOC_SDL][1].body = build_manifest_payload(regions, filenames)
        /\ \A k \in 1..Len(filenames) :
               /\ filenames[k] \in DOMAIN fs
               /\ fs[filenames[k]] # << >>
               /\ \E j \in 1..Len(iso_input) : iso_input[j] = filenames[k]

C10_Witness ==
    /\ pc = "done"
    /\ Len(regions) = 2
    /\ Len(iso_input) = 7 + 85 * 2 + 4

\* a run that lost a planned file to an error ended without the writer
C10_WitnessFailed ==
    /\ pc = "failed"
    /\ ~WriterInvoked
    /\ filenames # << >>
    /\ \E k \in 1..Len(filenames) : filenames[k] \notin DOMAIN fs

\* ---- C11 ----

\* the names the manifest parcel of MTOC.SDL lists
ManifestNames ==
    LET entries == fs[MTOC_SDL][1].body.files
    IN  {entries[i].name : i \in 1..Len(entries)}

\* C11: the manifest lists every file produced by the build: every file
\* handed to the image writer has its name among the manifest's entries.
C11_ManifestListsEveryFile ==
    WriterInvoked => \A j \in 1..Len(iso_input) : iso_input[j] \in ManifestNames

\* what the manifest does leave out: the two POI files, which head the list,
\* and the density files, which follow the five planned global files
ManifestOmitsPoiAndDensityFiles ==
    WriterInvoked =>
        \A j \in 1..Len(iso_input) :
            iso_input[j] \notin ManifestNames
                <=> j \in 1..2 \/ j \in 8..(Len(iso_input) - 2 * Len(regions))

\* ---- C12 ----

\* the POIs of the first k regions, in extraction order
RECURSIVE POIsThrough(_)
POIsThrough(k) ==
    IF k = 0 THEN << >> ELSE POIsThrough(k - 1) \o load_poi_data(regions[k])

PoiPayload(poi) ==
    pack_i32_le(fixed6(poi_point(poi.geom)[2])) \o pack_i32_le(fixed6(poi_point(poi.geom)[1]))

\* C12: POI ids come from one counter for the whole build: the ids are
\* 0, 1, 2, ... in extraction order, without gap, repeat or restart at a
\* region boundary, and the POI with id i is the i-th entry of the POI name
\* list and the i-th POI geometry record, in memory and in POIGEOM.SDL.
C12_PoiIdsFromOneCounter ==
    /\ \E k \in 0..Len(regions) :
           \E ps \in {POIsThrough(k)} :
               /\ poi_index_counter = Len(ps)
               /\ Len(all_poi_names) = Len(ps)
               /\ Len(poi_records) = Len(ps)
               /\ Len(poi_offsets) = Len(ps)
               /\ \A i \in 1..Len(ps) :
                      /\ poi_records[i][1] = i - 1
                      /\ poi_offsets[i][1] = i - 1
                      /\ all_poi_names[i] = ps[i].name
                      /\ poi_records[i][2] = PoiPayload(ps[i])
    /\ PoiGeomWritten =>
           /\ Len(fs[POIGEOM_SDL]) = Len(poi_records) + 1
           /\ DOMAIN poi_index_blob = {i - 1 : i \in 1..Len(poi_records)}
           /\ \A i \in 1..Len(poi_records) :
                  fs[POIGEOM_SDL][i] = parcel_of(POI_GEOM_PARCEL_ID, poi_records[i][2])

\* two regions with POIs have been read and the POI files written
C12_Witness ==
    /\ pc = "manifest"
    /\ Len(regions) = 2
    /\ load_poi_data(regions[1]) # << >>
    /\ load_poi_data(regions[2]) # << >>
    /\ poi_index_counter = Len(load_poi_data(regions[1])) + Len(load_poi_data(regions[2]))
    /\ PoiGeomWritten

----------------------------------------------------------------------------
(* SpecRerun: a second run of build() in the work directory of the first   *)

RerunLists == {<<REGION_B>>, <<REGION_D>>, <<REGION_D, REGION_A>>}

InitRerun == Init /\ regions \in RerunLists

\* cli: the program is started again with the same arguments after a run that
\* completed or was aborted; the work directory is as that run left it
RunAgain ==
    /\ pc \in {"done", "failed"}
    /\ prior.pc = "none"
    /\ prior' = [pc |-> pc, fs |-> fs]
    /\ pc' = "validate" /\ ri' = 1
    /\ all_centroids' = << >> /\ kd_blob' = << >> /\ all_poi_names' = << >>
    /\ poi_records' = << >> /\ poi_offsets' = << >> /\ offset_acc' = 0
    /\ poi_index_counter' = 0 /\ poi_index_blob' = << >>
    /\ filenames' = << >> /\ global_files' = << >> /\ region_files' = << >>
    /\ records' = << >> /\ offsets' = << >> /\ iso_input' = <<"none">>
    /\ error' = "none" /\ report' = << >>
    /\ UNCHANGED <<otherVars, regions, pbfs, fs, bpt>>

NextRerun == Next \/ RunAgain

SpecRerun == InitRerun /\ [][NextRerun]_vars

StaleRun == prior.pc # "none"

\* C13: a run in a work directory that holds the files of an earlier run,
\* the on-disk index files included, is not made to fail by a leftover and
\* ends with the output files of a run in an empty directory.
C13_StaleDirectoryIsHarmless ==
    StaleRun =>
        /\ error # "ValueError"
        /\ pc = "done" /\ prior.pc = "done" => fs = prior.fs

\* in an empty directory none of these region lists makes an index build fail
FreshRunRaisesNoValueError == ~StaleRun => error # "ValueError"

\* a run that completed cannot be repeated in its directory: each region's
\* index file is reopened and holds the keys the run is about to insert
CompletedRunCannotBeRepeated == StaleRun /\ prior.pc = "done" => pc # "done"

\* a leftover index is reopened, never emptied: it keeps every key it held
LeftoverIndexIsReopened ==
    [][\A path \in DOMAIN bpt : path \in DOMAIN bpt' /\ DOMAIN bpt[path] \subseteq DOMAIN bpt'[path]]_vars

----------------------------------------------------------------------------
(* SpecIndex: build_bplustree applied to bounded lists of pairs            *)

MaxPairs == 3        \* longest list of (key, offset) pairs handed to build_bplustree

SampleKeys == {7, 9}

SampleOffsets == {0, 22}

PairLists == SeqsUpTo(SampleKeys \X SampleOffsets, MaxPairs)

InitIndex ==
    /\ call \in {[op |-> "build_bplustree", offsets |-> ps] : ps \in PairLists}
    /\ out = << >>
    /\ ScanIdle
    /\ ExtractIdle
    /\ BuildIdle

\* the index is built at a path that holds no file yet
CallBuildBplustree ==
    /\ call.op = "build_bplustree"
    /\ out = << >>
    /\ out' = <<build_bplustree(call.offsets, idx_name(REGION_A), << >>)>>
    /\ UNCHANGED <<call, scanVars, xVars, bVars>>

NextIndex == CallBuildBplustree

SpecIndex == InitIndex /\ [][NextIndex]_vars

IndexBuilt == call.op = "build_bplustree" /\ out # << >>

\* the pair at position i is the last one of its key
LastOfKey(ps, i) == \A j \in (i + 1)..Len(ps) : ps[j][1] # ps[i][1]

\* C14: when the pairs given to the offset-index build hold the same key more
\* than once, the build succeeds and the index maps the key to the offset of
\* its last occurrence in insertion order.
C14_DuplicateKeysLastWins ==
    IndexBuilt =>
        /\ out[1].ok
        /\ \A i \in 1..Len(call.offsets) :
               LastOfKey(call.offsets, i) =>
                   /\ call.offsets[i][1] \in DOMAIN out[1].tree
                   /\ out[1].tree[call.offsets[i][1]] = call.offsets[i][2]

\* what the build does: it succeeds exactly when no key repeats, and then maps
\* every key to its offset; a repeated key raises at its second occurrence
\* and the tree keeps the first offset
DuplicateKeyRaises ==
    IndexBuilt =>
        /\ out[1].ok <=> \A i \in 1..Len(call.offsets) : LastOfKey(call.offsets, i)
        /\ \A k \in DOMAIN out[1].tree :
               \E i \in 1..Len(call.offsets) :
                   /\ call.offsets[i] = <<k, out[1].tree[k]>>
                   /\ \A j \in 1..(i - 1) : call.offsets[j][1] # k

----------------------------------------------------------------------------
(* SpecKd: build_kdtree and serialize_kdtree applied to bounded point lists *)

MaxPoints == 3       \* longest list of points handed to build_kdtree

SampleCoords == {-15, 0, 331000005}      \* in 1e-7 degree

PointLists == SeqsUpTo(SampleCoords \X SampleCoords, MaxPoints)

InitKd ==
    /\ call \in {[op |-> "serialize_kdtree", points |-> ps] : ps \in PointLists}
    /\ out = << >>
    /\ ScanIdle
    /\ ExtractIdle
    /\ BuildIdle

\* main.py 164-165: kd = build_kdtree(points); kd_blob = serialize_kdtree(kd)
CallSerializeKdtree ==
    /\ call.op = "serialize_kdtree"
    /\ out = << >>
    /\ LET kd == build_kdtree(call.points)
       IN  out' = IF kd.ok THEN <<[ok |-> TRUE, blob |-> serialize_kdtree(kd)]>>
                  ELSE <<[ok |-> FALSE, blob |-> << >>]>>
    /\ UNCHANGED <<call, scanVars, xVars, bVars>>

NextKd == CallSerializeKdtree

SpecKd == InitKd /\ [][NextKd]_vars

KdSerialized == call.op = "serialize_kdtree" /\ out # << >>

\* a little-endian signed 32-bit field
i32_le(bs, at) ==
    (IF bs[at + 4] >= 128 THEN bs[at + 4] - 256 ELSE bs[at + 4]) * 16777216
        + u_le(bs, at, 3)

KdRecordLen == 12    \* 4-byte index, two 4-byte coordinates

\* the records of a serialized point index, in file order
KdRecords(blob) ==
    [r \in 1..(Len(blob) \div KdRecordLen) |->
        [idx |-> u_le(blob, (r - 1) * KdRecordLen, 4),
         x   |-> i32_le(blob, (r - 1) * KdRecordLen + 4),
         y   |-> i32_le(blob, (r - 1) * KdRecordLen + 8)]]

\* n records, the index fields are 0..n-1 each once, and the record with
\* index i holds the fixed-point coordinates of the i-th point supplied
KdRecordsIdentifyPoints(points, blob) ==
    \E recs \in {KdRecords(blob)} :
        /\ Len(blob) = KdRecordLen * Len(points)
        /\ \A i \in 1..Len(points) :
               /\ Cardinality({r \in 1..Len(recs) : recs[r].idx = i - 1}) = 1
               /\ \A r \in 1..Len(recs) :
                      recs[r].idx = i - 1 =>
                          recs[r].x = fixed6(points[i][1]) /\ recs[r].y = fixed6(points[i][2])

\* C15: for every list of n points, serialization emits exactly n records
\* whose index fields are 0..n-1, each once, and the record with index i
\* holds the fixed-point coordinates of the i-th point supplied.
C15_KdRecordsCarryIdentity ==
    KdSerialized => out[1].ok /\ KdRecordsIdentifyPoints(call.points, out[1].blob)

\* what the code does: the same for every list that holds a point; the list
\* without points raises in build_kdtree and nothing is serialized
KdIdentityForNonEmptyLists ==
    KdSerialized =>
        IF call.points = << >> THEN ~out[1].ok
        ELSE out[1].ok /\ KdRecordsIdentifyPoints(call.points, out[1].blob)

\* ---- C16 ----

DensityDone == pc \in {"rnames", "rindex", "rcarto", "rkd", "iso", "done"}

DistinctRegions == \A i, j \in 1..Len(regions) : regions[i] = regions[j] => i = j

DistinctCodes == \A i, j \in 1..Len(regions) : code_of(regions[i]) = code_of(regions[j]) => i = j

\* the density paths appended to global_files, after the seven files of steps 3 and 4
DensityPaths == SubSeq(global_files, 8, Len(global_files))

\* one file per (region, zoom, tile): 85 paths per region, no path twice, and
\* every path holds the grid of the triple it was written for
OneFilePerTriple ==
    \E tiles \in {tiles_from(0)} :
    \E paths \in {DensityPaths} :
        /\ Len(tiles) = 1 + 4 + 16 + 64
        /\ Len(paths) = Len(tiles) * Len(regions)
        /\ \A a, b \in 1..Len(paths) : paths[a] = paths[b] => a = b
        /\ \A a \in 1..Len(paths) :
               fs[paths[a]] = <<parcel_of(DENS_PARCEL_ID,
                                    [region |-> regions[((a - 1) \div Len(tiles)) + 1],
                                     tile   |-> tiles[((a - 1) % Len(tiles)) + 1]])>>

\* C16: for any list of distinct regions the build produces exactly one
\* density file per (region, zoom, tile), zoom 0..3 with 2^Z x 2^Z tiles (85
\* per region): distinct triples get distinct names, no density file is
\* overwritten by another triple, no path is twice in the writer's list.
C16_OneDensityFilePerTriple == DensityDone /\ DistinctRegions => OneFilePerTriple

\* what the names do separate: regions whose stems differ in their first two
\* characters, and the tiles of one region
DensityFilesDistinctPerCode == DensityDone /\ DistinctCodes => OneFilePerTriple

\* distinct regions with one two-character code share every density path
SharedCodeSharesPaths ==
    DensityDone /\ ~DistinctCodes =>
        \E a, b \in 1..Len(DensityPaths) : a # b /\ DensityPaths[a] = DensityPaths[b]

----------------------------------------------------------------------------
(* SpecDensity: the normalization of one density tile (main.py 323-328)     *)
(* float64 values are kept exactly: a finite double is a bit string (most   *)
(* significant bit first) of at most 54 bits with a count of fraction bits, *)
(* value = bits / 2^frac. Results are rounded to 53 significant bits, ties  *)
(* to even, as IEEE 754 does. Cell values are whole numbers below 2^15.     *)

MantissaBits == 53   \* significand precision of a float64

UINT16_MAX == 65535

RECURSIVE bits_of(_)
bits_of(n) == IF n = 0 THEN << >> ELSE bits_of(n \div 2) \o <<n % 2>>

RECURSIVE int_of(_)
int_of(bs) == IF bs = << >> THEN 0 ELSE 2 * int_of(SubSeq(bs, 1, Len(bs) - 1)) + bs[Len(bs)]

\* bits + 1
RECURSIVE bits_inc(_)
bits_inc(bs) ==
    IF bs = << >> THEN <<1>>
    ELSE IF bs[Len(bs)] = 0 THEN SubSeq(bs, 1, Len(bs) - 1) \o <<1>>
    ELSE bits_inc(SubSeq(bs, 1, Len(bs) - 1)) \o <<0>>

\* k further quotient bits of r / m (r < m), appended to acc; the remainder
\* left decides the rounding: up when above half, to even on a tie
RECURSIVE div_bits(_, _, _, _)
div_bits(r, m, k, acc) ==
    IF k = 0
    THEN IF 2 * r > m \/ (2 * r = m /\ acc[Len(acc)] = 1) THEN bits_inc(acc) ELSE acc
    ELSE IF 2 * r >= m THEN div_bits(2 * r - m, m, k - 1, Append(acc, 1))
    ELSE div_bits(2 * r, m, k - 1, Append(acc, 0))

\* 65535.0 / max_val for a whole max_val in 1..32767
float_div(num, m) ==
    [bits |-> div_bits(num % m, m, MantissaBits - Len(bits_of(num \div m)), bits_of(num \div m)),
     frac |-> MantissaBits - Len(bits_of(num \div m))]

\* bits * v for a whole v >= 1, from the least significant bit up
RECURSIVE mul_bits(_, _, _, _, _)
mul_bits(bs, i, v, carry, acc) ==
    IF i = 0 THEN bits_of(carry) \o acc
    ELSE mul_bits(bs, i - 1, v, (bs[i] * v + carry) \div 2, <<(bs[i] * v + carry) % 2>> \o acc)

\* a bit string rounded to 53 significant bits, ties to even; dropped is the
\* number of low bits given up
round_bits(bs) ==
    IF Len(bs) <= MantissaBits THEN [bits |-> bs, dropped |-> 0]
    ELSE [bits |-> IF /\ bs[MantissaBits + 1] = 1
                      /\ \/ bs[MantissaBits] = 1
                         \/ \E i \in (MantissaBits + 2)..Len(bs) : bs[i] = 1
                   THEN bits_inc(SubSeq(bs, 1, MantissaBits))
                   ELSE SubSeq(bs, 1, MantissaBits),
          dropped |-> Len(bs) - MantissaBits]

\* cell * scale
float_mul(v, x) ==
    IF v = 0 THEN [bits |-> << >>, frac |-> 0]
    ELSE [bits |-> round_bits(mul_bits(x.bits, Len(x.bits), v, 0, << >>)).bits,
          frac |-> x.frac - round_bits(mul_bits(x.bits, Len(x.bits), v, 0, << >>)).dropped]

\* .clip(0, 65535).astype(np.uint16): the whole part, truncated
clip_astype_uint16(x) ==
    IF Len(x.bits) <= x.frac THEN 0
    ELSE Min(int_of(SubSeq(x.bits, 1, Len(x.bits) - x.frac)), UINT16_MAX)

RECURSIVE array_max(_)
array_max(a) ==
    IF Len(a) = 1 THEN a[1]
    ELSE IF a[1] >= array_max(Tail(a)) THEN a[1] ELSE array_max(Tail(a))

normalize_exact(density_array) ==
    [i \in 1..Len(density_array) |->
        IF array_max(density_array) > 0
        THEN (density_array[i] * UINT16_MAX) \div array_max(density_array)
        ELSE 0]

\* main.py 323-328: max_val, scale, density_scaled
normalize(density_array) ==
    IF array_max(density_array) > 0
    THEN [i \in 1..Len(density_array) |->
             clip_astype_uint16(float_mul(density_array[i],
                                          float_div(UINT16_MAX, array_max(density_array))))]
    ELSE [i \in 1..Len(density_array) |-> 0]

MaxCells == 3        \* cells of the tile that are looked at

SampleCells == {0, 5, 13, 100}       \* accumulated lengths, whole metres

CellArrays == UNION {[1..n -> SampleCells] : n \in 1..MaxCells}

InitDensity ==
    /\ call \in {[op |-> "normalize", density_array |-> a] : a \in CellArrays}
    /\ out = << >>
    /\ ScanIdle
    /\ ExtractIdle
    /\ BuildIdle

CallNormalize ==
    /\ call.op = "normalize"
    /\ out = << >>
    /\ out' = <<normalize(call.density_array)>>
    /\ UNCHANGED <<call, scanVars, xVars, bVars>>

NextDensity == CallNormalize

SpecDensity == InitDensity /\ [][NextDensity]_vars

Normalized == call.op = "normalize" /\ out # << >>

\* C17: if the tile's maximum cell value is zero every serialized cell is 0;
\* otherwise the cell holding the maximum serializes as exactly 65535 and
\* every other cell as its value scaled by 65535/max (to the whole number
\* below, or one less where the floating-point product falls short), within
\* 0..65535.
C17_MaximumMapsTo65535 ==
    Normalized =>
        \E a \in {call.density_array} : \E exact \in {normalize_exact(call.density_array)} :
            \A i \in 1..Len(a) :
                /\ out[1][i] \in 0..UINT16_MAX
                /\ array_max(a) = 0 => out[1][i] = 0
                /\ array_max(a) > 0 /\ a[i] = array_max(a) => out[1][i] = UINT16_MAX
                /\ array_max(a) > 0 => out[1][i] \in {exact[i] - 1, exact[i]}

\* what the code guarantees: the all-zero tile, the range, and every cell,
\* the maximum included, within one of the exact scaled value
ScaledWithinOne ==
    Normalized =>
        \E a \in {call.density_array} : \E exact \in {normalize_exact(call.density_array)} :
            \A i \in 1..Len(a) :
                /\ out[1][i] \in 0..UINT16_MAX
                /\ array_max(a) = 0 => out[1][i] = 0
                /\ array_max(a) > 0 => out[1][i] \in {exact[i] - 1, exact[i]}

\* a tile whose only road piece is 100 m long serializes that cell as 65535
ScenarioC ==
    Normalized /\ array_max(call.density_array) = 100 =>
        \A i \in 1..Len(out[1]) :
            /\ call.density_array[i] = 100 => out[1][i] = UINT16_MAX
            /\ call.density_array[i] = 0 => out[1][i] = 0

\* ---- C18 ----

StagesFinished ==
    /\ pc = "iso"
    /\ Len(global_files) = 7 + Len(tiles_from(0)) * Len(regions)
    /\ Len(region_files) = 2 * Len(regions)
    /\ \A i \in 1..Len(global_files) : global_files[i] \in DOMAIN fs
    /\ \A i \in 1..Len(region_files) : region_files[i] \in DOMAIN fs

\* C18: when a stage raises, the build reports the error and propagates it
\* to the caller; no stage is retried (no step follows the failure); the
\* image writer is not invoked in that run; the files already written stay
\* in place. The image writer is invoked at most once, and only after every
\* other stage has finished.
C18_FailureEndsTheRun ==
    [][ /\ pc # "failed"
        /\ \A n \in DOMAIN fs : n \in DOMAIN fs'
        /\ pc' = "failed" =>
               /\ error' # "none"
               /\ report' = Append(report, "Build failed")
               /\ fs' = fs
               /\ pc # "iso" => iso_input' = <<"none">>
        /\ WriterInvoked => iso_input' = iso_input
        /\ iso_input' # iso_input => StagesFinished
      ]_vars

\* a stage raised after files were written: reported, propagated, no writer
C18_Witness ==
    /\ pc = "failed"
    /\ error = "Exception"
    /\ report = <<"Build failed">>
    /\ ~WriterInvoked
    /\ Len(regions) = 2
    /\ Len(region_files) = 3
    /\ \A i \in 1..Len(global_files) : global_files[i] \in DOMAIN fs

====
